---- MODULE Spec2Model ----
(***************************************************************************)
(* Model of theforeman.py, the Foreman external inventory script.          *)
(*                                                                         *)
(* The script is one sequential run of ForemanInventory.__init__: read the *)
(* settings, parse the command line, construct the API client, then either *)
(* describe one host (get_host_info) or list the fleet (get_inventory),    *)
(* and print one JSON document.  An uncaught Python exception ends the     *)
(* process with exit status 1, like sys.exit(1).                           *)
(*                                                                         *)
(* Python values are records tagged by `kind`, so that None, strings and   *)
(* integers can be told apart and compared.                                *)
(***************************************************************************)
EXTENDS Integers, Sequences, FiniteSets, TLC

VARIABLES
    config,          \* the [foreman] section of foreman.ini, as found on disk
    argv,            \* the command line
    pc,              \* position in __init__
    base_url, username, password,
    args,            \* self.args
    client,          \* self.client
    inventory,       \* self.inventory
    _cache,          \* self._cache
    mode,            \* branch taken at lines 122-127
    meta,            \* get_host_info: the host object
    fields,          \* get_host_info: values of the dict literal evaluated so far
    fieldIdx,        \* get_host_info: reference fields evaluated so far
    host_desc,       \* get_host_info: host_desc
    page, hosts, groups,   \* get_inventory: its locals
    data_to_print,
    stdout,          \* the JSON documents printed
    exitCode,        \* the process's exit status once pc = "exited"
    exc,             \* the exception that ended the run, or "none"
    showCalls,       \* adapter log: number of show_<type>s(id) calls, per type and id
    hostResp,        \* adapter log: what show_hosts answered
    pagesRequested,  \* adapter log: the page arguments of index_hosts, in order
    pageResps,       \* adapter log: what index_hosts answered, in order
    nResolve,        \* number of _get_object_from_id calls made
    cacheHits        \* number of them answered from the cache

vars == <<config, argv, pc, base_url, username, password, args, client, inventory,
          _cache, mode, meta, fields, fieldIdx, host_desc, page, hosts, groups,
          data_to_print, stdout, exitCode, exc, showCalls, hostResp,
          pagesRequested, pageResps, nResolve, cacheHits>>

-----------------------------------------------------------------------------
(* Bounds *)

MaxPages == 2          \* index_hosts answers an empty page beyond this page
MaxPageLen == 2        \* hosts per page
MaxResolveCalls == 3   \* _get_object_from_id calls made by a caller of the cache

-----------------------------------------------------------------------------
(* Python values *)

PyNone == [kind |-> "None"]
PyStr(s) == [kind |-> "str", s |-> s]
PyInt(n) == [kind |-> "int", n |-> n]

\* Python truthiness, as used by `if self.args.host:`
Truthy(v) ==
    CASE v.kind = "None" -> FALSE
      [] v.kind = "str" -> v.s # ""
      [] v.kind = "int" -> v.n # 0
      [] OTHER -> TRUE

\* str.lower() on the environment names of the model
Lower(s) ==
    CASE s = "Production" -> "production"
      [] s = "Dev" -> "dev"
      [] OTHER -> s

\* {} : a dict with no keys
EmptyDict == [k \in {} |-> PyNone]

\* A response envelope {key: val}; Envelope("", PyNone) stands for a dict
\* that holds no object under the type asked for.
Envelope(key, val) == [kind |-> "dict", key |-> key, val |-> val]

\* dict.get(k): the value under k, or None
DictGet(d, k) == IF d.key = k THEN d.val ELSE PyNone

\* Result of a method call: the exception raised ("none" when it returned),
\* the value returned, the cache afterwards, whether the adapter was called.
Result(e, ret, c, called) == [exc |-> e, ret |-> ret, cache |-> c, called |-> called]

-----------------------------------------------------------------------------
(* The class *)

\* The methods the class defines
Methods == {"_empty_inventory", "_empty_cache", "__init__", "get_host_info",
            "get_inventory", "read_settings", "parse_cli_args", "_get_from_id",
            "_get_object_from_id"}

_empty_inventory == [k \in {"_meta"} |-> [h \in {"hostvars"} |-> EmptyDict]]

CacheKeys == {"operatingsystem", "hostgroup", "environment", "model",
              "compute_resource", "domain", "subnet", "architecture", "host"}

\* Identifiers used as cache keys in the model: reference ids and host ids
RefIds == {PyInt(1), PyInt(2)}
HostIds == {PyStr("h1"), PyStr("h2")}
Ids == RefIds \cup HostIds

\* An id that was never stored
Missing == [kind |-> "missing"]

_empty_cache == [t \in CacheKeys |-> [i \in Ids |-> Missing]]

-----------------------------------------------------------------------------
(* The API client adapter (python-foreman), an external collaborator *)

\* A reference object as served by show_<type>s
RefRecord(t, i) == [kind |-> "dict", name |-> PyStr("Name"), label |-> PyStr("web"),
                    major |-> PyStr("7"), id |-> i, type |-> t]

OptRefId == {PyNone, PyInt(1)}
EnvNames == {PyStr("Production"), PyStr("Dev")}

\* Host objects as served by show_hosts
HostRecords ==
    [kind : {"dict"}, id : {PyInt(7)}, ip : {PyStr("10.0.0.7")}, name : {PyStr("a")},
     environment : EnvNames,
     operatingsystem_id : OptRefId, model_id : OptRefId,
     compute_resource_id : OptRefId, domain_id : OptRefId, subnet_id : OptRefId,
     architecture_id : OptRefId, hostgroup_id : OptRefId,
     created_at : {PyStr("t0")}, updated_at : {PyStr("t1")}, status : {PyInt(0)}]

\* What show_<type>s(id) may answer in a run of the script: the envelope
\* holding the object, or a dict holding no such object.
ShowResponses(t, i) ==
    (IF t = "host" THEN {Envelope(t, h) : h \in HostRecords}
                   ELSE {Envelope(t, RefRecord(t, i))})
    \cup {Envelope("", PyNone)}

\* What show_<type>s(id) may answer a caller of the cache: as above with one
\* object per type and id, or None.
CacheResponses(t, i) == {Envelope(t, RefRecord(t, i)), Envelope("", PyNone), PyNone}

\* The hosts of index_hosts pages: {"host": {"name": .., "hostgroup_id": ..}}
FleetHost(n, g) == Envelope("host", [kind |-> "dict", name |-> PyStr(n), hostgroup_id |-> g])
FleetHosts == {FleetHost("a", PyInt(1)), FleetHost("b", PyInt(1)), FleetHost("c", PyNone)}

RECURSIVE SeqsUpTo(_, _)
SeqsUpTo(S, n) ==
    IF n = 0 THEN {<<>>}
    ELSE LET shorter == SeqsUpTo(S, n - 1)
         IN shorter \cup {Append(s, x) : s \in {q \in shorter : Len(q) = n - 1}, x \in S}

\* What index_hosts(page=p) may answer
PageResponses(p) == IF p > MaxPages THEN {<<>>} ELSE SeqsUpTo(FleetHosts, MaxPageLen)

-----------------------------------------------------------------------------
(* read_settings and parse_cli_args *)

RequiredSettings == <<"base_url", "username", "password">>

\* ConfigParser.get('foreman', option): raises when the section or the
\* option is not there, and returns the option's string otherwise.
ConfigGet(conf, option) ==
    IF ~conf.section THEN [exc |-> "NoSectionError", val |-> PyNone]
    ELSE IF option \notin conf.options THEN [exc |-> "NoOptionError", val |-> PyNone]
    ELSE [exc |-> "none", val |-> PyStr(option)]

\* read_settings with an empty default for a setting that is not there
read_settings_defaults(conf) ==
    LET val(o) == IF ConfigGet(conf, o).exc = "none" THEN ConfigGet(conf, o).val ELSE PyStr("")
    IN [exc |-> "none", base_url |-> val(RequiredSettings[1]),
        username |-> val(RequiredSettings[2]), password |-> val(RequiredSettings[3])]

\* read_settings: the three settings are read in order; a raise leaves the
\* later ones at their initial None.
read_settings(conf) ==
    LET b == ConfigGet(conf, RequiredSettings[1])
        u == ConfigGet(conf, RequiredSettings[2])
        p == ConfigGet(conf, RequiredSettings[3])
    IN IF b.exc # "none" THEN [exc |-> b.exc, base_url |-> PyNone, username |-> PyNone, password |-> PyNone]
       ELSE IF u.exc # "none" THEN [exc |-> u.exc, base_url |-> b.val, username |-> PyNone, password |-> PyNone]
       ELSE IF p.exc # "none" THEN [exc |-> p.exc, base_url |-> b.val, username |-> u.val, password |-> PyNone]
       ELSE [exc |-> "none", base_url |-> b.val, username |-> u.val, password |-> p.val]

\* parse_cli_args: --list is store_true with default True, so args.list is
\* True whether or not the flag is given; --host stores its value, default None.
parse_cli_args(av) == [list |-> TRUE, host |-> av.host]

\* select_mode with the list flag tested first
select_mode_list_first(a) ==
    IF a.list THEN "list"
    ELSE IF Truthy(a.host) THEN "host"
    ELSE "empty"

\* Lines 122-127: which branch of the main path runs
select_mode(a) ==
    IF Truthy(a.host) THEN "host"
    ELSE IF a.list THEN "list"
    ELSE "empty"

-----------------------------------------------------------------------------
(* The reference cache *)

\* _get_object_from_id that never consults the cache
_get_object_from_id_uncached(c, obj_type, obj_id, resp) ==
    IF obj_id = PyNone THEN Result("none", PyNone, c, FALSE)
    ELSE LET c2 == [c EXCEPT ![obj_type][obj_id] = resp]
         IN IF resp.kind # "dict"
            THEN Result("AttributeError", PyNone, c2, TRUE)
            ELSE Result("none", DictGet(resp, obj_type), c2, TRUE)

\* _get_object_from_id that unwraps with obj[obj_type] instead of obj.get(obj_type)
_get_object_from_id_subscript(c, obj_type, obj_id, resp) ==
    IF obj_id = PyNone THEN Result("none", PyNone, c, FALSE)
    ELSE LET stored == c[obj_type][obj_id]
             cached == IF stored = Missing THEN PyNone ELSE stored
             miss == cached = PyNone
             obj == IF miss THEN resp ELSE cached
             c2 == IF miss THEN [c EXCEPT ![obj_type][obj_id] = obj] ELSE c
         IN IF obj.kind # "dict"
            THEN Result("TypeError", PyNone, c2, miss)
            ELSE IF obj.key # obj_type
            THEN Result("KeyError", PyNone, c2, miss)
            ELSE Result("none", obj.val, c2, miss)

\* _get_object_from_id(obj_type, obj_id), given the cache c and the answer
\* resp the adapter gives if it is asked.
_get_object_from_id(c, obj_type, obj_id, resp) ==
    IF obj_id = PyNone THEN Result("none", PyNone, c, FALSE)
    ELSE LET stored == c[obj_type][obj_id]
             cached == IF stored = Missing THEN PyNone ELSE stored
             miss == cached = PyNone
             obj == IF miss THEN resp ELSE cached
             c2 == IF miss THEN [c EXCEPT ![obj_type][obj_id] = obj] ELSE c
         IN IF obj.kind # "dict"
            THEN Result("AttributeError", PyNone, c2, miss)
            ELSE Result("none", DictGet(obj, obj_type), c2, miss)

\* The names bound in _get_from_id's frame when line 204 runs.  `param` is a
\* local of the function (it is assigned at line 204) with no value yet.
BoundLocals == {"self", "param_name", "param_id"}

\* The module's global names; os_obj is not among them.
Globals == {"sys", "os", "re", "optparse", "ConfigParser", "collections", "json",
            "Foreman", "ConnectionError", "ForemanInventory"}

\* _get_from_id(param_name, param_id).  Line 204 reads `param` to build the
\* argument list of _get_object_from_id, before anything is assigned to it.
_get_from_id(c, param_name, param_id, resp) ==
    IF "param" \notin BoundLocals
    THEN Result("UnboundLocalError", PyNone, c, FALSE)
    ELSE LET r == _get_object_from_id(c, param_name, param_id, resp)
         IN IF r.exc # "none" \/ r.ret = PyNone THEN r
            ELSE IF param_name = "hostgroup" THEN [r EXCEPT !.ret = r.ret.label]
            ELSE IF param_name = "operatingsystem"
                 THEN IF "os_obj" \notin Globals
                      THEN [r EXCEPT !.exc = "NameError", !.ret = PyNone]
                      ELSE [r EXCEPT !.ret = PyStr("Name-7")]
            ELSE IF param_name = "environment"
                 THEN [r EXCEPT !.ret = PyStr(Lower(r.ret.name.s))]
            ELSE [r EXCEPT !.ret = r.ret.name]

-----------------------------------------------------------------------------
(* get_host_info *)

\* The reference fields of the dict literal, in the order it evaluates them
RefFields == <<
    [out |-> "os",               type |-> "operatingsystem",  fk |-> "operatingsystem_id"],
    [out |-> "model",            type |-> "model",            fk |-> "model_id"],
    [out |-> "compute_resource", type |-> "compute_resource", fk |-> "compute_resource_id"],
    [out |-> "domain",           type |-> "domain",           fk |-> "domain_id"],
    [out |-> "subnet",           type |-> "subnet",           fk |-> "subnet_id"],
    [out |-> "architecture",     type |-> "architecture",     fk |-> "architecture_id"],
    [out |-> "hostgroup",        type |-> "hostgroup",        fk |-> "hostgroup_id"] >>

\* d with key k set to v
DictSet(d, k, v) == [x \in DOMAIN d \cup {k} |-> IF x = k THEN v ELSE d[x]]

\* meta.get('environment').get('environment').get('name').lower()
environment_name(m) ==
    IF m.environment = PyNone
    THEN [exc |-> "AttributeError", val |-> PyNone]
    ELSE [exc |-> "none", val |-> PyStr(Lower(m.environment.s))]

\* The fields of the literal that are copied from meta
host_copied(m, env) ==
    [k \in {"id", "ip", "name", "environment", "created", "updated", "status",
            "ansible_ssh_host"} |->
        CASE k = "id" -> m.id
          [] k = "ip" -> m.ip
          [] k = "name" -> m.name
          [] k = "environment" -> env
          [] k = "created" -> m.created_at
          [] k = "updated" -> m.updated_at
          [] k = "status" -> m.status
          [] k = "ansible_ssh_host" -> m.ip]

-----------------------------------------------------------------------------
(* get_inventory *)

\* index_step with `hosts = resp` in place of `hosts += resp`
index_step_overwrite(pg, hs, resp) ==
    IF Len(resp) < 1
    THEN [page |-> pg, hosts |-> hs, done |-> TRUE]
    ELSE [page |-> pg + 1, hosts |-> resp, done |-> FALSE]

\* One turn of the pagination loop, lines 167-171, given the page's answer
index_step(pg, hs, resp) ==
    IF Len(resp) < 1
    THEN [page |-> pg, hosts |-> hs, done |-> TRUE]
    ELSE [page |-> pg + 1, hosts |-> hs \o resp, done |-> FALSE]

-----------------------------------------------------------------------------
(* The run of __init__ *)

Configs == {[section |-> FALSE, options |-> {}]}
           \cup {[section |-> TRUE, options |-> o] : o \in SUBSET {"base_url", "username", "password"}}

\* Command lines: --host absent, --host '' or --host <id>; --list given or not
Argvs == [host : {PyNone, PyStr("")} \cup HostIds, list : BOOLEAN]

NoCalls == [t \in CacheKeys |-> [i \in Ids |-> 0]]

\* Lines 99-104: the state when __init__ has set its fields
Init ==
    /\ config \in Configs
    /\ argv \in Argvs
    /\ pc = "read_settings"
    /\ base_url = PyNone /\ username = PyNone /\ password = PyNone
    /\ args = PyNone
    /\ client = PyNone
    /\ inventory = _empty_inventory
    /\ _cache = _empty_cache
    /\ mode = "none"
    /\ meta = PyNone
    /\ fields = EmptyDict
    /\ fieldIdx = 0
    /\ host_desc = EmptyDict
    /\ page = 1 /\ hosts = <<>> /\ groups = EmptyDict
    /\ data_to_print = EmptyDict
    /\ stdout = <<>>
    /\ exitCode = 0
    /\ exc = "none"
    /\ showCalls = NoCalls
    /\ hostResp = PyNone
    /\ pagesRequested = <<>>
    /\ pageResps = <<>>
    /\ nResolve = 0
    /\ cacheHits = 0

inputVars == <<config, argv>>
settingVars == <<base_url, username, password>>
hostVars == <<meta, fields, fieldIdx, host_desc, hostResp>>
listVars == <<page, hosts, groups, pagesRequested, pageResps>>
cacheVars == <<_cache, showCalls, nResolve, cacheHits>>

\* An exception nothing catches, or sys.exit(1): the process ends with status 1
Uncaught(e) == pc' = "exited" /\ exc' = e /\ exitCode' = 1

\* The adapter's log after a call of _get_object_from_id with result r
Logged(r, t, i) ==
    IF r.called THEN [showCalls EXCEPT ![t][i] = @ + 1] ELSE showCalls

\* 1 when the call with result r was answered from the cache
Hit(r, i) == IF i # PyNone /\ ~r.called THEN 1 ELSE 0

\* Line 107
ReadSettings ==
    /\ pc = "read_settings"
    /\ LET r == read_settings(config)
       IN /\ base_url' = r.base_url /\ username' = r.username /\ password' = r.password
          /\ IF r.exc # "none"
             THEN Uncaught(r.exc)
             ELSE pc' = "parse_cli_args" /\ UNCHANGED <<exc, exitCode>>
    /\ UNCHANGED <<inputVars, args, client, inventory, mode, hostVars, listVars,
                   cacheVars, data_to_print, stdout>>

\* Line 108
ParseCliArgs ==
    /\ pc = "parse_cli_args"
    /\ args' = parse_cli_args(argv)
    /\ pc' = "check_settings"
    /\ UNCHANGED <<inputVars, settingVars, client, inventory, mode, hostVars, listVars,
                   cacheVars, data_to_print, stdout, exitCode, exc>>

\* Lines 110-113
CheckSettings ==
    /\ pc = "check_settings"
    /\ IF base_url = PyNone \/ username = PyNone \/ password = PyNone
       THEN Uncaught("SystemExit")
       ELSE pc' = "connect" /\ UNCHANGED <<exc, exitCode>>
    /\ UNCHANGED <<inputVars, settingVars, args, client, inventory, mode, hostVars,
                   listVars, cacheVars, data_to_print, stdout>>

\* Lines 115-120: the client is constructed, or the API is unreachable
Connect ==
    /\ pc = "connect"
    /\ \E reachable \in BOOLEAN :
          IF reachable
          THEN /\ client' = PyStr("Foreman")
               /\ pc' = "dispatch"
               /\ UNCHANGED <<exc, exitCode>>
          ELSE /\ Uncaught("ConnectionError")
               /\ UNCHANGED client
    /\ UNCHANGED <<inputVars, settingVars, args, inventory, mode, hostVars, listVars,
                   cacheVars, data_to_print, stdout>>

\* Lines 122-127
Dispatch ==
    /\ pc = "dispatch"
    /\ mode' = select_mode(args)
    /\ pc' = CASE mode' = "host" -> "get_host_info"
               [] mode' = "list" -> "get_inventory"
               [] OTHER -> "print"
    /\ UNCHANGED <<inputVars, settingVars, args, client, inventory, hostVars, listVars,
                   cacheVars, data_to_print, stdout, exitCode, exc>>

\* Lines 133-137: the host object is looked up; no host object, empty record
GetHostInfo ==
    /\ pc = "get_host_info"
    /\ \E resp \in ShowResponses("host", args.host) :
          LET r == _get_object_from_id(_cache, "host", args.host, resp)
          IN /\ _cache' = r.cache
             /\ showCalls' = Logged(r, "host", args.host)
             /\ nResolve' = nResolve + 1
             /\ cacheHits' = cacheHits + Hit(r, args.host)
             /\ hostResp' = IF r.called THEN resp ELSE hostResp
             /\ IF r.exc # "none"
                THEN Uncaught(r.exc) /\ UNCHANGED <<meta, data_to_print>>
                ELSE /\ meta' = r.ret
                     /\ UNCHANGED <<exc, exitCode>>
                     /\ IF r.ret = PyNone
                        THEN pc' = "print" /\ data_to_print' = host_desc
                        ELSE pc' = "host_desc" /\ UNCHANGED data_to_print
    /\ UNCHANGED <<inputVars, settingVars, args, client, inventory, mode, fields,
                   fieldIdx, host_desc, listVars, stdout>>

\* Lines 139-143: the dict literal's first values, up to the environment name,
\* which may raise.  The other values copied from meta (lines 150-152, 155)
\* have no effect of their own and are gathered here with them.
HostDescOpen ==
    /\ pc = "host_desc"
    /\ fieldIdx = 0
    /\ LET env == environment_name(meta)
       IN IF env.exc # "none"
          THEN Uncaught(env.exc) /\ UNCHANGED <<fields, fieldIdx>>
          ELSE /\ fields' = host_copied(meta, env.val)
               /\ fieldIdx' = 1
               /\ UNCHANGED <<pc, exc, exitCode>>
    /\ UNCHANGED <<inputVars, settingVars, args, client, inventory, mode, meta,
                   host_desc, hostResp, listVars, cacheVars, data_to_print, stdout>>

\* Lines 144-149 and 153: the next reference field of the literal; after the
\* last one host_desc is bound and returned (lines 139, 158, 123).
HostDescRef ==
    /\ pc = "host_desc"
    /\ fieldIdx \in 1..Len(RefFields)
    /\ LET f == RefFields[fieldIdx]
           id == meta[f.fk]
       IN \E resp \in ShowResponses(f.type, id) :
             LET r == _get_from_id(_cache, f.type, id, resp)
             IN /\ _cache' = r.cache
                /\ showCalls' = Logged(r, f.type, id)
                /\ IF r.exc = "UnboundLocalError"
                   THEN UNCHANGED <<nResolve, cacheHits>>
                   ELSE /\ nResolve' = nResolve + 1
                        /\ cacheHits' = cacheHits + Hit(r, id)
                /\ IF r.exc # "none"
                   THEN Uncaught(r.exc) /\ UNCHANGED <<fields, fieldIdx, host_desc, data_to_print>>
                   ELSE /\ fields' = DictSet(fields, f.out, r.ret)
                        /\ fieldIdx' = fieldIdx + 1
                        /\ UNCHANGED <<exc, exitCode>>
                        /\ IF fieldIdx = Len(RefFields)
                           THEN /\ host_desc' = fields'
                                /\ data_to_print' = fields'
                                /\ pc' = "print"
                           ELSE UNCHANGED <<host_desc, data_to_print, pc>>
    /\ UNCHANGED <<inputVars, settingVars, args, client, inventory, mode, meta,
                   hostResp, listVars, stdout>>

\* Lines 166-171: one turn of the pagination loop
IndexHosts ==
    /\ pc = "get_inventory"
    /\ \E resp \in PageResponses(page) :
          LET s == index_step(page, hosts, resp)
          IN /\ pagesRequested' = Append(pagesRequested, page)
             /\ pageResps' = Append(pageResps, resp)
             /\ page' = s.page
             /\ hosts' = s.hosts
             /\ pc' = IF s.done THEN "after_paging" ELSE "get_inventory"
    /\ UNCHANGED <<inputVars, settingVars, args, client, inventory, mode, hostVars,
                   groups, cacheVars, data_to_print, stdout, exitCode, exc>>

\* Lines 173-176: an empty fleet returns the empty groups
AfterPaging ==
    /\ pc = "after_paging"
    /\ IF Len(hosts) < 1
       THEN pc' = "print" /\ data_to_print' = groups
       ELSE pc' = "group" /\ UNCHANGED data_to_print
    /\ UNCHANGED <<inputVars, settingVars, args, client, inventory, mode, hostVars,
                   listVars, cacheVars, stdout, exitCode, exc>>

\* Line 177, first host: self._get_hostgroup_from_id is looked up on the
\* instance, and the class defines no such method.  Lines 178-181 are never
\* reached.
GroupHost ==
    /\ pc = "group"
    /\ "_get_hostgroup_from_id" \notin Methods
    /\ Uncaught("AttributeError")
    /\ UNCHANGED <<inputVars, settingVars, args, client, inventory, mode, hostVars,
                   listVars, cacheVars, data_to_print, stdout>>

\* Line 129, and the end of the script with status 0
PrintExit ==
    /\ pc = "print"
    /\ stdout' = Append(stdout, data_to_print)
    /\ pc' = "exited"
    /\ UNCHANGED <<inputVars, settingVars, args, client, inventory, mode, hostVars,
                   listVars, cacheVars, data_to_print, exitCode, exc>>

Next ==
    \/ ReadSettings
    \/ ParseCliArgs
    \/ CheckSettings
    \/ Connect
    \/ Dispatch
    \/ GetHostInfo
    \/ HostDescOpen
    \/ HostDescRef
    \/ IndexHosts
    \/ AfterPaging
    \/ GroupHost
    \/ PrintExit

Spec == Init /\ [][Next]_vars

-----------------------------------------------------------------------------
(* The reference cache under a caller that resolves references repeatedly *)

KeyIds(t) == IF t = "host" THEN HostIds ELSE RefIds

\* The script's state once the client is constructed, about to use the cache
InitCache ==
    /\ config = [section |-> TRUE, options |-> {"base_url", "username", "password"}]
    /\ argv = [host |-> PyNone, list |-> FALSE]
    /\ pc = "resolve"
    /\ base_url = PyStr("base_url") /\ username = PyStr("username")
    /\ password = PyStr("password")
    /\ args = parse_cli_args(argv)
    /\ client = PyStr("Foreman")
    /\ inventory = _empty_inventory
    /\ _cache = _empty_cache
    /\ mode = "none"
    /\ meta = PyNone
    /\ fields = EmptyDict
    /\ fieldIdx = 0
    /\ host_desc = EmptyDict
    /\ page = 1 /\ hosts = <<>> /\ groups = EmptyDict
    /\ data_to_print = EmptyDict
    /\ stdout = <<>>
    /\ exitCode = 0
    /\ exc = "none"
    /\ showCalls = NoCalls
    /\ hostResp = PyNone
    /\ pagesRequested = <<>>
    /\ pageResps = <<>>
    /\ nResolve = 0
    /\ cacheHits = 0

\* One call of _get_object_from_id(t, i); an exception it raises is caught
\* nowhere in the script and ends the run.
Resolve ==
    /\ pc = "resolve"
    /\ nResolve < MaxResolveCalls
    /\ \E t \in CacheKeys :
       \E i \in KeyIds(t) \cup {PyNone} :
       \E resp \in CacheResponses(t, i) :
          LET r == _get_object_from_id(_cache, t, i, resp)
          IN /\ _cache' = r.cache
             /\ showCalls' = Logged(r, t, i)
             /\ nResolve' = nResolve + 1
             /\ cacheHits' = cacheHits + Hit(r, i)
             /\ IF r.exc # "none"
                THEN Uncaught(r.exc)
                ELSE UNCHANGED <<pc, exc, exitCode>>
    /\ UNCHANGED <<inputVars, settingVars, args, client, inventory, mode, hostVars,
                   listVars, data_to_print, stdout>>

SpecCache == InitCache /\ [][Resolve]_vars

-----------------------------------------------------------------------------
(* Properties *)

RECURSIVE Concat(_)
Concat(ss) == IF ss = <<>> THEN <<>> ELSE Head(ss) \o Concat(Tail(ss))

MissingSetting == ~config.section \/ config.options # {"base_url", "username", "password"}

\* The run reached the branch at lines 122-127 and took it
Dispatched == client # PyNone /\ pc # "dispatch"

HostDescKeys == {"id", "ip", "name", "environment", "os", "model", "compute_resource",
                 "domain", "subnet", "architecture", "created", "updated", "status",
                 "hostgroup", "ansible_ssh_host"}

\* C1: the adapter's show operation is called at most once per type and id,
\* however often that reference is resolved, and an entry of the cache, once
\* stored, is never overwritten or removed.
C1_ShowAtMostOnce ==
    /\ [](\A t \in CacheKeys : \A i \in Ids : showCalls[t][i] <= 1)
    /\ [][\A t \in CacheKeys : \A i \in Ids :
             _cache[t][i] # Missing => _cache'[t][i] = _cache[t][i]]_vars

\* A reference resolved three times with a single show call
C1_Witness ==
    /\ cacheHits >= 2
    /\ exc = "none"
    /\ \E t \in CacheKeys : \E i \in Ids :
          /\ showCalls[t][i] = 1
          /\ \A u \in CacheKeys : \A j \in Ids : <<u, j>> # <<t, i>> => showCalls[u][j] = 0

\* C2: index_hosts is asked for pages 1, 2, 3, ... each once; no page is
\* asked for after an empty one; the loop ends exactly at the first empty
\* page; and hosts is the concatenation of the pages answered, in order.
C2_Pagination ==
    /\ Len(pageResps) = Len(pagesRequested)
    /\ \A k \in 1..Len(pagesRequested) : pagesRequested[k] = k
    /\ \A k \in 1..(Len(pageResps) - 1) : pageResps[k] # <<>>
    /\ pc = "get_inventory" => \A k \in 1..Len(pageResps) : pageResps[k] # <<>>
    /\ (mode = "list" /\ pc # "get_inventory") =>
          Len(pageResps) >= 1 /\ pageResps[Len(pageResps)] = <<>>
    /\ mode # "list" => pagesRequested = <<>>
    /\ hosts = Concat(pageResps)

\* Two non-empty pages, then the empty page that ends the loop
C2_Witness ==
    /\ pc = "after_paging"
    /\ pagesRequested = <<1, 2, 3>>
    /\ Len(pageResps[1]) = 2 /\ Len(pageResps[2]) = 1
    /\ Len(hosts) = 3

\* C3: a list run over a non-empty fleet prints a mapping in which every
\* host's name appears under a group.
C3_EveryHostGrouped ==
    (mode = "list" /\ pc = "exited" /\ hosts # <<>>) =>
        /\ exitCode = 0
        /\ Len(stdout) = 1
        /\ \A k \in 1..Len(hosts) :
              \E g \in DOMAIN stdout[1] \ {"_meta"} :
                 \E j \in 1..Len(stdout[1][g]) : stdout[1][g][j] = hosts[k].val.name

\* C4: every document printed in list mode holds _meta with empty hostvars.
C4_MetaAlwaysPresent ==
    \A k \in 1..Len(stdout) :
        mode = "list" =>
            /\ "_meta" \in DOMAIN stdout[k]
            /\ stdout[k]["_meta"] = _empty_inventory["_meta"]

\* C5: in get_host_info a reference field whose foreign-key id is absent on the
\* host comes out as null and the run goes on: the run does not end at such a
\* field, and the absent fields already evaluated are null.
C5_AbsentIdIsNull ==
    (mode = "host" /\ fieldIdx >= 1) =>
        /\ \A k \in 1..(fieldIdx - 1) :
              meta[RefFields[k].fk] = PyNone => fields[RefFields[k].out] = PyNone
        /\ (pc = "exited" /\ fieldIdx <= Len(RefFields)
               /\ meta[RefFields[fieldIdx].fk] = PyNone) => exc = "none"

\* C6: in single-host mode, when the adapter's answer holds no host object,
\* get_host_info returns the empty record, which is printed, and the process
\* exits with status zero without raising.
C6_UnknownHostEmptyRecord ==
    (mode = "host" /\ hostResp.kind = "dict" /\ DictGet(hostResp, "host") = PyNone) =>
        /\ exc = "none"
        /\ meta = PyNone
        /\ host_desc = EmptyDict
        /\ pc \in {"print", "exited"}
        /\ pc = "print" => data_to_print = EmptyDict /\ stdout = <<>>
        /\ pc = "exited" => exitCode = 0 /\ stdout = <<EmptyDict>>

C6_Witness ==
    /\ mode = "host"
    /\ hostResp = Envelope("", PyNone)
    /\ showCalls["host"][args.host] = 1
    /\ pc = "exited"
    /\ exitCode = 0
    /\ stdout = <<EmptyDict>>

\* C7: with a required setting missing, the process ends with a non-zero exit
\* status in read_settings: the client is never constructed, no API call is
\* made and nothing is printed.
C7_MissingSettingExitsFirst ==
    MissingSetting =>
        /\ client = PyNone
        /\ showCalls = NoCalls
        /\ pagesRequested = <<>>
        /\ stdout = <<>>
        /\ pc \in {"read_settings", "exited"}
        /\ pc = "exited" => exitCode # 0

\* username missing, the other two present
C7_Witness ==
    /\ config = [section |-> TRUE, options |-> {"base_url", "password"}]
    /\ pc = "exited"
    /\ exitCode = 1
    /\ exc = "NoOptionError"
    /\ client = PyNone

\* C8: the exit status is non-zero exactly when a required setting is missing
\* or the API is unreachable when the client is constructed; every other run
\* ends with status zero after printing one document.
C8_ExitCode ==
    pc = "exited" =>
        /\ exitCode # 0 <=> (MissingSetting \/ exc = "ConnectionError")
        /\ exitCode = 0 => Len(stdout) = 1

\* C9: for a host that exists, get_host_info returns the full flat record,
\* with ansible_ssh_host equal to ip and the environment name lowercased, and
\* the record is printed.
C9_HostRecord ==
    (mode = "host" /\ meta # PyNone /\ pc = "exited") =>
        /\ exc = "none"
        /\ DOMAIN host_desc = HostDescKeys
        /\ host_desc["ansible_ssh_host"] = meta.ip
        /\ host_desc["ip"] = meta.ip
        /\ host_desc["environment"] = PyStr(Lower(meta.environment.s))
        /\ stdout = <<host_desc>>

\* C10: with a host identifier on the command line the single-host operation
\* runs and index_hosts is never called, whether or not --list is given; with
\* no --host the list operation runs.
C10_ModeSelection ==
    /\ Truthy(argv.host) =>
          /\ mode \in {"none", "host"}
          /\ pagesRequested = <<>>
          /\ Dispatched => mode = "host"
    /\ argv.host = PyNone =>
          /\ mode \in {"none", "list"}
          /\ showCalls = NoCalls
          /\ Dispatched => mode = "list"

\* --host h1 --list: the host was looked up and no page was asked for
C10_Witness ==
    /\ argv = [host |-> PyStr("h1"), list |-> TRUE]
    /\ mode = "host"
    /\ showCalls["host"][PyStr("h1")] = 1
    /\ pagesRequested = <<>>
    /\ pc = "exited"

====
